---- MODULE Spec2Model ----
(***************************************************************************)
(* AWSAttributionManager (Gems/AWSCore, Editor/Attribution): the editor's  *)
(* usage-metric reporter.  MetricCheck decides from the preferences        *)
(* (enabled flag, delay, last-send timestamp) whether to post a metric;    *)
(* the request's success callback records the send time in the manager's   *)
(* settings registry and starts a background job that writes the registry  *)
(* back to editor_aws_preferences.setreg.                                  *)
(*                                                                         *)
(* State: the system clock, the manager's settings registry, the           *)
(* preferences file, the request jobs in flight, the save jobs not yet     *)
(* run, and the request job's default config.                              *)
(***************************************************************************)
EXTENDS Integers, FiniteSets, Sequences, TLC

\* A key of the registry or of the file: not present, or present with a value.
None == <<>>
Some(v) == <<v>>
Val(k) == k[1]

\* Line 108: the delay used when AWSAttributionDelaySeconds is not found.
DefaultDelaySeconds == 86400

\* Bounds of the model.
MaxSecs == 3         \* one-second clock steps within a day
MaxDays == 1         \* one-day clock steps
MaxRequests == 2     \* request jobs in flight at once
MaxSaveJobs == 2     \* save jobs started and not yet run

\* Clock value at which the editor session starts.
StartClock == 1

\* Values an earlier session may have left in the preferences file.
FileDelays == {0, 2}
FileTimeStamps == 0 .. StartClock

\* Lines 39-41.
AWSAttributionApiId == "xbzx78kvbk"
AWSAttributionChinaApiId == ""
AWSAttributionApiStage == "prod"

\* Aws::Region values the default profile may name.
CN_NORTH_1 == "cn-north-1"
CN_NORTHWEST_1 == "cn-northwest-1"
US_WEST_2 == "us-west-2"
AwsRegions == {US_WEST_2, "us-east-1", CN_NORTH_1, CN_NORTHWEST_1}

VARIABLES
    clock,              \* system_clock::now() in seconds since the epoch
    settingsRegistry,   \* m_settingsRegistry: the three keys under /Amazon/AWS/Preferences
    preferencesFile,    \* editor_aws_preferences.setreg on disk
    requests,           \* AWSAttributionRequestJobs started and not completed
    saveJobs,           \* SaveSettingsRegistryFile jobs started and not yet run
    config,             \* AWSAttributionRequestJob's default config
    clientRegion,       \* region of the process's default AWS profile
    lastRecorded,       \* the time the latest UpdateLastSend stored (history)
    ev                  \* the operation that ran last and its outcome (history)

vars == <<clock, settingsRegistry, preferencesFile, requests, saveJobs, config,
          clientRegion, lastRecorded, ev>>

EmptyRegistry == [enabled |-> None, delay |-> None, last |-> None]

\* The preferences file: it does not exist, it holds text that is not valid
\* JSON, or it holds the keys of json.
NoFile == [state |-> "nofile", json |-> EmptyRegistry]
Corrupt == [state |-> "corrupt", json |-> EmptyRegistry]
JsonFile(keys) == [state |-> "json", json |-> keys]

\* ---------------------------------------------------------------- registry

\* Mutant of MergeSettingsFile: the file's keys replace the registry's, so a
\* key the file lacks is removed.
MergeSettingsFileReplacing(reg, f) ==
    IF f.state # "json" THEN reg ELSE f.json

\* Lines 86-89: the file, when it exists, is merged into the registry as a
\* JSON merge patch: a key of the file replaces the registry's, a key the
\* file lacks is kept.  A file that does not parse changes nothing.
MergeSettingsFile(reg, f) ==
    IF f.state # "json"
    THEN reg
    ELSE [k \in DOMAIN reg |-> IF f.json[k] # None THEN f.json[k] ELSE reg[k]]

\* Mutant of RegistryAfterMerge: the file is merged before the path
\* resolution is tested.
RegistryAfterMergeUnresolved(resolved, reg, f) ==
    MergeSettingsFile(reg, f)

\* Lines 76-89: the registry after path resolution and the merge.
RegistryAfterMerge(resolved, reg, f) ==
    IF ~resolved THEN reg ELSE MergeSettingsFile(reg, f)

\* Mutant of AttributionEnabled: the flag read is not tested.
AttributionEnabledIgnored(reg) == TRUE

\* Mutant of AttributionEnabled: a flag that is not found counts as disabled.
AttributionEnabledOptIn(reg) ==
    IF reg.enabled = None THEN FALSE ELSE Val(reg.enabled)

\* Lines 91-96: a flag that is not found counts as enabled.
AttributionEnabled(reg) ==
    IF reg.enabled = None THEN TRUE ELSE Val(reg.enabled)

\* Lines 104-110: the delay, a day when the key is not found.
DelayInSeconds(reg) ==
    IF reg.delay = None THEN DefaultDelaySeconds ELSE Val(reg.delay)

\* Mutant of DelayElapsed: > for >=.
DelayElapsedStrict(now, last, delay) ==
    IF now - last < 0 THEN TRUE ELSE now - last > delay

\* Lines 119-122: secondsSinceLastSend.count() is a signed 64-bit count and
\* delayInSeconds an unsigned one, so the comparison is made in u64: a
\* negative difference converts to a value above every delay of the model.
DelayElapsed(now, last, delay) ==
    IF now - last < 0 THEN TRUE ELSE now - last >= delay

\* Lines 71-128: the value ShouldGenerateMetric returns.
ShouldGenerateMetric(resolved, reg, f, now) ==
    LET m == RegistryAfterMerge(resolved, reg, f) IN
    IF ~resolved THEN FALSE
    ELSE IF ~AttributionEnabled(m) THEN FALSE
    ELSE IF m.last = None THEN TRUE
    ELSE DelayElapsed(now, Val(m.last), DelayInSeconds(m))

\* Mutant of RegistryAfterCheck: the default delay is used and not stored.
RegistryAfterCheckNoDefault(resolved, reg, f) ==
    RegistryAfterMerge(resolved, reg, f)

\* Lines 71-128: the registry ShouldGenerateMetric leaves behind (the merge,
\* and the default delay written at line 109).
RegistryAfterCheck(resolved, reg, f) ==
    LET m == RegistryAfterMerge(resolved, reg, f) IN
    IF resolved /\ AttributionEnabled(m) /\ m.delay = None
    THEN [m EXCEPT !.delay = Some(DefaultDelaySeconds)]
    ELSE m

\* ---------------------------------------------------------------- endpoint

\* AWSResourceMappingUtils::FormatRESTApiUrl: the URL's parts in order.
FormatRESTApiUrl(apiId, region, stage) ==
    <<"https://", apiId, ".execute-api.", region, ".amazonaws.com/", stage>>

\* Lines 186-203: line 200 runs on both paths.
SetApiEndpointAndRegion(profileRegion) ==
    LET china == profileRegion \in {CN_NORTH_1, CN_NORTHWEST_1}
        apiId == IF china THEN AWSAttributionChinaApiId ELSE AWSAttributionApiId
        region == US_WEST_2
    IN  [region |-> region,
         endpointOverride |-> FormatRESTApiUrl(apiId, region, AWSAttributionApiStage)]

\* ---------------------------------------------------------------- save job

\* Lines 143-150: the dump of the registry under /Amazon/AWS/Preferences.
DumpSettingsRegistryToStream(reg) == JsonFile(reg)

\* Lines 132-170: the file after the save job ran.
FileAfterSave(outcome, reg, f) ==
    CASE outcome = "saved"      -> DumpSettingsRegistryToStream(reg)
      [] outcome = "dumpFailed" -> f          \* line 155: return before the open
      [] outcome = "openFailed" -> f          \* line 161: nothing written
      [] outcome = "shortWrite" -> Corrupt    \* line 163: created, partly written

SaveOutcomes == {"saved", "dumpFailed", "openFailed", "shortWrite"}

\* ---------------------------------------------------------------- actions

Event(op, resolved, sent) == [op |-> op, resolved |-> resolved, sent |-> sent]

FileContents ==
    {NoFile} \cup
    {JsonFile(keys) : keys \in
        [enabled : {None, Some(TRUE), Some(FALSE)},
         delay   : {None} \cup {Some(d) : d \in FileDelays},
         last    : {None} \cup {Some(t) : t \in FileTimeStamps}]}

\* Lines 43-46: a new manager holds an empty registry.  The file is whatever
\* an earlier session left (its timestamp is not ahead of the clock).
Init ==
    /\ clock = StartClock
    /\ settingsRegistry = EmptyRegistry
    /\ preferencesFile \in FileContents
    /\ requests = 0
    /\ saveJobs = 0
    /\ config = [region |-> "", endpointOverride |-> <<>>]
    /\ clientRegion \in AwsRegions
    /\ lastRecorded = None
    /\ ev = Event("Init", FALSE, FALSE)

\* Lines 57-69 with 71-128 and 256-273: ShouldGenerateMetric, then, when it
\* returns true, SetApiEndpointAndRegion on the default config and the start
\* of a request job.  UpdateMetric (240-254) fills only the local metric the
\* job carries.  resolved is the outcome of fileIO->ResolvePath.
MetricCheck ==
    \E resolved \in BOOLEAN :
        LET send == ShouldGenerateMetric(resolved, settingsRegistry, preferencesFile, clock) IN
        /\ send => requests < MaxRequests
        /\ settingsRegistry' = RegistryAfterCheck(resolved, settingsRegistry, preferencesFile)
        /\ requests' = IF send THEN requests + 1 ELSE requests
        /\ config' = IF send THEN SetApiEndpointAndRegion(clientRegion) ELSE config
        /\ ev' = Event("MetricCheck", resolved, send)
        /\ UNCHANGED <<clock, preferencesFile, saveJobs, clientRegion, lastRecorded>>

\* Lines 262-269 with 175-184: the request succeeded and its callback runs
\* UpdateLastSend.  setOk is the outcome of m_settingsRegistry->Set; the save
\* job is started only after a successful Set.
RequestSuccess ==
    \E setOk \in BOOLEAN :
        /\ requests > 0
        /\ setOk => saveJobs < MaxSaveJobs
        /\ requests' = requests - 1
        /\ settingsRegistry' =
              IF setOk THEN [settingsRegistry EXCEPT !.last = Some(clock)] ELSE settingsRegistry
        /\ saveJobs' = IF setOk THEN saveJobs + 1 ELSE saveJobs
        /\ lastRecorded' = IF setOk THEN Some(clock) ELSE lastRecorded
        /\ ev' = Event("RequestSuccess", FALSE, FALSE)
        /\ UNCHANGED <<clock, preferencesFile, config, clientRegion>>

\* Line 269: the failure callback is empty.
RequestFailure ==
    /\ requests > 0
    /\ requests' = requests - 1
    /\ ev' = Event("RequestFailure", FALSE, FALSE)
    /\ UNCHANGED <<clock, settingsRegistry, preferencesFile, saveJobs, config,
                   clientRegion, lastRecorded>>

\* Lines 133-169: a save job runs.
SaveJob ==
    \E outcome \in SaveOutcomes :
        /\ saveJobs > 0
        /\ saveJobs' = saveJobs - 1
        /\ preferencesFile' = FileAfterSave(outcome, settingsRegistry, preferencesFile)
        /\ ev' = Event("SaveJob", FALSE, FALSE)
        /\ UNCHANGED <<clock, settingsRegistry, requests, config, clientRegion, lastRecorded>>

\* The system clock advances by a second.
Tick ==
    /\ clock % DefaultDelaySeconds < MaxSecs
    /\ clock' = clock + 1
    /\ ev' = Event("Tick", FALSE, FALSE)
    /\ UNCHANGED <<settingsRegistry, preferencesFile, requests, saveJobs, config,
                   clientRegion, lastRecorded>>

\* The system clock advances by a day.
DayPasses ==
    /\ clock \div DefaultDelaySeconds < MaxDays
    /\ clock' = clock + DefaultDelaySeconds
    /\ ev' = Event("DayPasses", FALSE, FALSE)
    /\ UNCHANGED <<settingsRegistry, preferencesFile, requests, saveJobs, config,
                   clientRegion, lastRecorded>>

Next ==
    \/ MetricCheck
    \/ RequestSuccess
    \/ RequestFailure
    \/ SaveJob
    \/ Tick
    \/ DayPasses

Spec == Init /\ [][Next]_vars

\* ---------------------------------------------------------------- properties

\* The preferences a MetricCheck whose path resolves reads: the registry
\* with the file merged in.
Merged == MergeSettingsFile(settingsRegistry, preferencesFile)

\* The step is a MetricCheck call / one that started a request job.
IsMetricCheck == ev'.op = "MetricCheck"
Submitted == requests' = requests + 1

\* C1: the value stored under AWSAttributionLastTimeStamp in the registry
\* never becomes smaller than a value it held earlier (and, once present,
\* stays present).
TimestampNeverDecreases ==
    [][settingsRegistry.last # None =>
          /\ settingsRegistry'.last # None
          /\ Val(settingsRegistry'.last) >= Val(settingsRegistry.last)]_vars

\* C2: a MetricCheck made while the preferences hold AWSAttributionEnabled =
\* false starts no request job whatever the delay and the timestamp are, and
\* records no last-send time: UpdateLastSend does not run, no save job is
\* started, the file is not written, and the registry's timestamp is the one
\* the preferences already held.
DisabledNeverSubmits ==
    [][(IsMetricCheck /\ Merged.enabled = Some(FALSE)) =>
          /\ requests' = requests
          /\ ~ev'.sent
          /\ config' = config
          /\ lastRecorded' = lastRecorded
          /\ saveJobs' = saveJobs
          /\ preferencesFile' = preferencesFile
          /\ settingsRegistry'.last \in {settingsRegistry.last, preferencesFile.json.last}]_vars

\* C2 witness: a MetricCheck resolved its path, found the flag false and sent
\* nothing, although a timestamp is stored and the delay has elapsed.
DisabledNeverSubmitsWitness ==
    /\ ev = Event("MetricCheck", TRUE, FALSE)
    /\ settingsRegistry.enabled = Some(FALSE)
    /\ settingsRegistry.last # None
    /\ settingsRegistry.delay # None
    /\ clock - Val(settingsRegistry.last) >= Val(settingsRegistry.delay)

\* C3 as stated: MetricCheck submits only if AWSAttributionEnabled is present
\* and true; with the flag absent nothing is submitted.
OptInOnly ==
    [][(IsMetricCheck /\ Submitted) => Merged.enabled = Some(TRUE)]_vars

\* C3 amended: MetricCheck submits only if AWSAttributionEnabled is not
\* present with value false; an absent flag counts as enabled, so with the
\* flag absent and the path resolved a metric is submitted exactly when no
\* timestamp is stored or the delay has elapsed.
OptOutByDefault ==
    [][IsMetricCheck =>
          /\ Submitted => Merged.enabled # Some(FALSE)
          /\ (ev'.resolved /\ Merged.enabled = None) =>
                (Submitted <=>
                    \/ Merged.last = None
                    \/ Val(Merged.last) > clock
                    \/ clock - Val(Merged.last) >= DelayInSeconds(Merged))]_vars

\* C3 witness: a metric was submitted with the flag absent.
OptOutByDefaultWitness ==
    /\ ev = Event("MetricCheck", TRUE, TRUE)
    /\ settingsRegistry.enabled = None
    /\ preferencesFile.json.enabled = None

\* C4: on a MetricCheck that reads the preferences (its path resolved) and
\* finds attribution enabled and a timestamp last <= now, a metric is
\* submitted if and only if now - last >= delay, the delay being the
\* configured AWSAttributionDelaySeconds, or 86400 when that key is absent.
DelayThrottle ==
    [][(/\ IsMetricCheck
        /\ ev'.resolved
        /\ Merged.enabled # Some(FALSE)
        /\ Merged.last # None
        /\ Val(Merged.last) <= clock) =>
          (Submitted <=>
              clock - Val(Merged.last) >=
                  (IF Merged.delay = None THEN 86400 ELSE Val(Merged.delay)))]_vars

\* C4 witness: a metric was submitted at the very second the (non-zero)
\* delay ran out.
DelayThrottleWitness ==
    /\ ev = Event("MetricCheck", TRUE, TRUE)
    /\ settingsRegistry.last # None
    /\ settingsRegistry.delay # None
    /\ Val(settingsRegistry.delay) > 0
    /\ clock - Val(settingsRegistry.last) = Val(settingsRegistry.delay)

\* C5: once a success callback has recorded the time T, no MetricCheck at a
\* clock time t with T <= t < T + delay submits another metric.
SendThrottle ==
    [][(/\ IsMetricCheck
        /\ lastRecorded # None
        /\ Val(lastRecorded) <= clock
        /\ clock < Val(lastRecorded) + DelayInSeconds(settingsRegistry')) =>
          ~Submitted]_vars

\* C6: a MetricCheck whose path resolution fails submits nothing and changes
\* neither the registry nor the preferences file.
ResolveFailureSkips ==
    [][(IsMetricCheck /\ ~ev'.resolved) =>
          /\ requests' = requests
          /\ ~ev'.sent
          /\ config' = config
          /\ saveJobs' = saveJobs
          /\ settingsRegistry' = settingsRegistry
          /\ preferencesFile' = preferencesFile]_vars

\* C6 witness: path resolution failed on a call that would otherwise have
\* merged new values into the registry and submitted a metric.
ResolveFailureSkipsWitness ==
    /\ ev = Event("MetricCheck", FALSE, FALSE)
    /\ Merged # settingsRegistry
    /\ ShouldGenerateMetric(TRUE, settingsRegistry, preferencesFile, clock)

\* C7 as stated: the registry's timestamp is changed only by the success
\* callback of a request.
OnlySuccessChangesTimestamp ==
    [][settingsRegistry'.last # settingsRegistry.last =>
          ev'.op = "RequestSuccess"]_vars

\* C7 amended: the registry's timestamp is changed only by the success
\* callback of a request (to the clock's time) or by the merge of the
\* preferences file at the start of a MetricCheck whose path resolved (to
\* the timestamp the file holds); the decision and the submit of a
\* MetricCheck, a request that fails or never completes, and a save job
\* leave it unchanged.
TimestampFrame ==
    [][settingsRegistry'.last # settingsRegistry.last =>
          \/ /\ ev'.op = "RequestSuccess"
             /\ settingsRegistry'.last = Some(clock)
          \/ /\ IsMetricCheck
             /\ ev'.resolved
             /\ preferencesFile.state = "json"
             /\ preferencesFile.json.last # None
             /\ settingsRegistry'.last = preferencesFile.json.last]_vars

\* C7 witness: the registry holds a timestamp that no success callback
\* stored: a MetricCheck merged it from the file.
TimestampFrameWitness ==
    /\ ev.op = "MetricCheck"
    /\ ev.resolved
    /\ lastRecorded = None
    /\ settingsRegistry.last # None
    /\ settingsRegistry.last = preferencesFile.json.last

\* C8: on a MetricCheck that reads the preferences (its path resolved) and
\* finds attribution enabled: with no timestamp stored a metric is submitted
\* whatever the delay is; and with AWSAttributionDelaySeconds absent, 86400
\* is written into the registry under that key and is the delay compared.
FirstAttemptAndDefaultDelay ==
    [][(IsMetricCheck /\ ev'.resolved /\ Merged.enabled # Some(FALSE)) =>
          /\ Merged.last = None => Submitted
          /\ Merged.delay = None =>
                /\ settingsRegistry'.delay = Some(86400)
                /\ (Merged.last # None /\ Val(Merged.last) <= clock) =>
                      (Submitted <=> clock - Val(Merged.last) >= 86400)]_vars

\* C8 witness: a first attempt was submitted with neither a timestamp nor a
\* delay stored, and the registry now holds the default delay.
FirstAttemptAndDefaultDelayWitness ==
    /\ ev = Event("MetricCheck", TRUE, TRUE)
    /\ settingsRegistry.last = None
    /\ preferencesFile.json.delay = None
    /\ settingsRegistry.delay = Some(86400)

\* C9: after SetApiEndpointAndRegion the config holds region cn-north-1 and
\* an endpoint built from the China API id when the default profile's region
\* is cn-north-1 or cn-northwest-1, and region us-west-2 and an endpoint
\* built from the default API id otherwise; the endpoint is formatted from
\* the region the config holds.
RegionAndEndpoint ==
    config.region # "" =>
        IF clientRegion \in {CN_NORTH_1, CN_NORTHWEST_1}
        THEN config = [region |-> CN_NORTH_1,
                       endpointOverride |->
                           FormatRESTApiUrl(AWSAttributionChinaApiId, CN_NORTH_1,
                                            AWSAttributionApiStage)]
        ELSE config = [region |-> US_WEST_2,
                       endpointOverride |->
                           FormatRESTApiUrl(AWSAttributionApiId, US_WEST_2,
                                            AWSAttributionApiStage)]

====
